---- MODULE Spec2Model ----
(***************************************************************************)
(* Model of src/src/download_engine.py: DownloadEngine (transfer, start,   *)
(* quit) driving one DownloadWorker, whose run() submits one download_core *)
(* call per URL to a ThreadPoolExecutor of thread_num workers and relays   *)
(* the results on the download_info signal.                                *)
(*                                                                         *)
(* Sizes are counted in chunks (one unit = one chunk_size block of 1024    *)
(* bytes).  A percentage is kept as the exact fraction n/d.  File writes   *)
(* are modelled write-through at the handle's offset.  The body of a       *)
(* response never exceeds its declared content-length (HTTP framing); it   *)
(* may be shorter, and the transport may fail at any point.                *)
(***************************************************************************)
EXTENDS Integers, Sequences, FiniteSets, TLC

\* ---------------------------------------------------------------- bounds
MaxUrls == 2
MaxThreads == 2
MaxLen == 2

URLS == {"a", "b"}

\* ------------------------------------------------------ program constants
max_retries == 3

VARIABLES
    worker,         \* DownloadEngine.worker: "None", "Job", or "New" (a worker
                    \* set by transfer() while the job of the variables runs)
    urls,           \* DownloadWorker.urls
    thread_num,     \* DownloadWorker.thread_num
    is_running,     \* DownloadWorker._is_running
    runPc,          \* position of DownloadWorker.run
    runCur,         \* the future run() is handling (0: none)
    yielded,        \* futures as_completed has already yielded
    quitPc,         \* position of DownloadEngine.quit
    pc,             \* per submitted call: position of download_core
    res,            \* per call: value of the returned list (last element)
    retry_count,    \* per call: local retry_count
    download_size,  \* per call: local download_size
    content_size,   \* per call: local content_size of the current attempt
    off,            \* per call: write offset of the open file handle
    fsize,          \* per file <num>.ts: size on disk (-1: absent)
    attempts,       \* per call: number of requests.get calls started
    termEv,         \* per call: number of results run() has emitted
    late,           \* per call: how the call met the cleared flag (history)
    fault,          \* per call: the non-transport fault it ran into (history)
    lastActive,     \* per executing call: the value n/d of its last Active event
    lateChunks,     \* per executing call: chunks it wrote with the flag cleared
    download_info   \* the list emitted on download_info by the last step

vars == <<worker, urls, thread_num, is_running, runPc, runCur, yielded, quitPc,
          pc, res, retry_count, download_size, content_size, off, fsize,
          attempts, termEv, late, fault, lastActive, lateChunks, download_info>>

taskVars == <<pc, res, retry_count, download_size, content_size, off, fsize, attempts,
             lastActive, lateChunks>>
jobVars == <<worker, urls, thread_num>>
runVars == <<runPc, runCur, yielded, termEv>>
histVars == <<late, fault>>
progVars == <<lastActive, lateChunks>>

\* ---------------------------------------------------------------- helpers
Max(a, b) == IF a >= b THEN a ELSE b

\* the URL lists of at most MaxUrls entries, up to renaming of the URLs (the
\* first entry is "a"); "b" gives lists with and without a repeated URL
UrlLists == {us \in UNION {[1..n -> URLS] : n \in 1..MaxUrls} : us[1] = "a"}

Tasks == DOMAIN urls

\* list.index(url): position of the first occurrence, 0-based
Index(us, u) == (CHOOSE i \in DOMAIN us : us[i] = u /\ \A j \in DOMAIN us : us[j] = u => i <= j) - 1

\* the num argument run() passes for the URL at position i
Num(i) == Index(urls, urls[i])

\* no Active event emitted yet
NoActive == [n |-> 0, d |-> 0]

NoEvent == [pos |-> 0, num |-> -1, active |-> -1, url |-> "", n |-> 0, d |-> 1]

\* [num, 0, url, v]
Terminal(i, v) == [pos |-> i, num |-> Num(i), active |-> 0, url |-> urls[i], n |-> v, d |-> 1]

\* [num, 1, url, (download_size / content_size) * 100]
Active(i, ds, cs) == [pos |-> i, num |-> Num(i), active |-> 1, url |-> urls[i], n |-> ds * 100, d |-> cs]

Executing == {"entry", "mkdir", "attempt", "stream", "write", "verify"}
Finished == {"done", "raised"}

InProgress == {i \in Tasks : pc[i] \in Executing}

\* mutant: the pool starts a thread per submitted call, whatever max_workers
PoolHasIdleWorkerMut == TRUE

\* a pool of max_workers threads has a thread free for the next queued call
PoolHasIdleWorker == Cardinality(InProgress) < thread_num

\* the executor's work queue is FIFO in submission order
NextQueued(i) == pc[i] = "pending" /\ \A j \in Tasks : pc[j] = "pending" => i <= j

\* mutant: the with block waits until every future has been yielded to the loop
PoolDrainedMut == \A i \in Tasks : yielded[i]

\* executor.shutdown(wait=True): every submitted call has finished
PoolDrained == \A i \in Tasks : pc[i] \in Finished

\* except requests.RequestException: retry_count += 1; retry or return -1
ExceptNext(rc) == IF rc + 1 < max_retries THEN "attempt" ELSE "done"

\* mutant: the while test lets a mismatch on the last attempt start another one
MismatchNextMut(rc) == IF rc + 1 <= max_retries THEN "attempt" ELSE "done"

\* mutant: a size mismatch fails the segment at once
MismatchNextFail(rc) == "done"

\* size mismatch: retry_count += 1; continue; then the while test, then line 99
MismatchNext(rc) == IF rc + 1 < max_retries THEN "attempt" ELSE "done"

\* ------------------------------------------------------------------- Init
Init ==
    /\ worker = "None"
    /\ urls = <<>>
    /\ thread_num = 0
    /\ is_running = TRUE
    /\ runPc = "none"
    /\ runCur = 0
    /\ yielded = <<>>
    /\ quitPc = "idle"
    /\ pc = <<>>
    /\ res = <<>>
    /\ retry_count = <<>>
    /\ download_size = <<>>
    /\ content_size = <<>>
    /\ off = <<>>
    /\ fsize = <<>>
    /\ attempts = <<>>
    /\ termEv = <<>>
    /\ late = <<>>
    /\ fault = <<>>
    /\ lastActive = <<>>
    /\ lateChunks = <<>>
    /\ download_info = NoEvent

\* ------------------------------------------------------- DownloadEngine
\* transfer(): a new DownloadWorker (here: while no previous job is running)
Transfer(us, n) ==
    /\ quitPc # "waiting"
    /\ runPc \in {"none", "idle", "returned"}
    /\ worker' = "Job"
    /\ urls' = us
    /\ thread_num' = n
    /\ is_running' = TRUE
    /\ runPc' = "idle"
    /\ runCur' = 0
    /\ yielded' = [i \in DOMAIN us |-> FALSE]
    /\ quitPc' = "idle"
    /\ pc' = [i \in DOMAIN us |-> "pending"]
    /\ res' = [i \in DOMAIN us |-> 0]
    /\ retry_count' = [i \in DOMAIN us |-> 0]
    /\ download_size' = [i \in DOMAIN us |-> 0]
    /\ content_size' = [i \in DOMAIN us |-> 0]
    /\ off' = [i \in DOMAIN us |-> 0]
    /\ fsize' = [k \in 0..(Len(us) - 1) |-> -1]
    /\ attempts' = [i \in DOMAIN us |-> 0]
    /\ termEv' = [i \in DOMAIN us |-> 0]
    /\ late' = [i \in DOMAIN us |-> "none"]
    /\ fault' = [i \in DOMAIN us |-> "none"]
    /\ lastActive' = [i \in DOMAIN us |-> NoActive]
    /\ lateChunks' = [i \in DOMAIN us |-> 0]
    /\ download_info' = NoEvent

\* start(): self.worker.start(); run() enters the with block and submits
Start ==
    /\ worker = "Job"
    /\ quitPc # "waiting"
    /\ runPc = "idle"
    /\ runPc' = "loop"
    /\ download_info' = NoEvent
    /\ UNCHANGED <<jobVars, is_running, runCur, yielded, termEv, quitPc, taskVars, histVars>>

\* quit(): self.worker.stop()
QuitStop ==
    /\ worker = "Job"
    /\ quitPc = "idle"
    /\ is_running' = FALSE
    /\ quitPc' = "waiting"
    /\ late' = [i \in Tasks |-> IF pc[i] = "pending" THEN "queued" ELSE late[i]]
    /\ fault' = fault
    /\ download_info' = NoEvent
    /\ UNCHANGED <<jobVars, runVars, taskVars>>

\* mutant: quit() does not wait for the thread
WaitReturnsMut == TRUE

\* QThread.wait() returns: the thread was never started or run() has returned
WaitReturns == runPc \in {"idle", "returned"}

\* quit(): self.worker.wait() returns; self.worker = None
QuitReturn ==
    /\ quitPc = "waiting"
    /\ WaitReturns
    /\ worker' = "None"
    /\ quitPc' = "returned"
    /\ download_info' = NoEvent
    /\ UNCHANGED <<urls, thread_num, is_running, runVars, taskVars, histVars>>

\* ------------------------------------------------- ThreadPoolExecutor
\* a pool thread takes the next queued call and enters download_core
Begin(i) ==
    /\ runPc \in {"loop", "body", "exit"}
    /\ NextQueued(i)
    /\ PoolHasIdleWorker
    /\ pc' = [pc EXCEPT ![i] = "entry"]
    /\ download_info' = NoEvent
    /\ UNCHANGED <<histVars, progVars, jobVars, is_running, runVars, quitPc, res, retry_count,
                   download_size, content_size, off, fsize, attempts>>

\* ------------------------------------------- DownloadWorker.download_core
\* return [num, 0, url, v]: the locals are dead from here on; content_size is
\* kept with a Completed result as the length that attempt declared
Return(i, v) ==
    /\ pc' = [pc EXCEPT ![i] = "done"]
    /\ res' = [res EXCEPT ![i] = v]
    /\ download_size' = [download_size EXCEPT ![i] = 0]
    /\ content_size' = [content_size EXCEPT ![i] = IF v = 100 THEN @ ELSE 0]
    /\ off' = [off EXCEPT ![i] = 0]
    /\ lastActive' = [lastActive EXCEPT ![i] = NoActive]
    /\ lateChunks' = [lateChunks EXCEPT ![i] = 0]

\* mutant: download_size starts again from 0 with every attempt
RetryMut(i) ==
    /\ pc' = [pc EXCEPT ![i] = "attempt"]
    /\ content_size' = [content_size EXCEPT ![i] = 0]
    /\ off' = [off EXCEPT ![i] = 0]
    /\ download_size' = [download_size EXCEPT ![i] = 0]
    /\ UNCHANGED <<res, lastActive, lateChunks>>

\* continue: back to the top of the while loop for another attempt
Retry(i) ==
    /\ pc' = [pc EXCEPT ![i] = "attempt"]
    /\ content_size' = [content_size EXCEPT ![i] = 0]
    /\ off' = [off EXCEPT ![i] = 0]
    /\ UNCHANGED <<res, download_size, lastActive, lateChunks>>

\* history: an attempt of call i failed (transport error or size mismatch)
AttemptFailed(i) ==
    /\ late' = [late EXCEPT ![i] = IF ~is_running THEN "failed" ELSE @]
    /\ UNCHANGED fault

\* history: call i ran into fault f
Fault(i, f) ==
    /\ fault' = [fault EXCEPT ![i] = f]
    /\ UNCHANGED late

\* if not self._is_running: return [num, 0, url, 0]
Check(i) ==
    /\ pc[i] = "entry"
    /\ IF ~is_running
         THEN Return(i, 0)
         ELSE /\ pc' = [pc EXCEPT ![i] = "mkdir"]
              /\ UNCHANGED <<res, download_size, content_size, off, progVars>>
    /\ download_info' = NoEvent
    /\ UNCHANGED <<histVars, jobVars, is_running, runVars, quitPc, retry_count,
                   fsize, attempts>>

\* os.makedirs(tmp_path, exist_ok=True), outside every try block
Makedirs(i) ==
    /\ pc[i] = "mkdir"
    /\ \/ /\ pc' = [pc EXCEPT ![i] = "attempt"]
          /\ UNCHANGED histVars
       \/ /\ pc' = [pc EXCEPT ![i] = "raised"]
          /\ Fault(i, "mkdir")
    /\ download_info' = NoEvent
    /\ UNCHANGED <<progVars, jobVars, is_running, runVars, quitPc, res, retry_count,
                   download_size, content_size, off, fsize, attempts>>

\* requests.get / raise_for_status raise requests.RequestException
GetFails(i) ==
    /\ pc[i] = "attempt"
    /\ attempts' = [attempts EXCEPT ![i] = @ + 1]
    /\ retry_count' = [retry_count EXCEPT ![i] = @ + 1]
    /\ IF ExceptNext(retry_count[i]) = "attempt" THEN Retry(i) ELSE Return(i, -1)
    /\ AttemptFailed(i)
    /\ download_info' = NoEvent
    /\ UNCHANGED <<jobVars, is_running, runVars, quitPc, fsize>>

\* a 2xx response without content-length: KeyError, caught by except Exception
GetNoLength(i) ==
    /\ pc[i] = "attempt"
    /\ attempts' = [attempts EXCEPT ![i] = @ + 1]
    /\ Return(i, -1)
    /\ Fault(i, "nolen")
    /\ download_info' = NoEvent
    /\ UNCHANGED <<jobVars, is_running, runVars, quitPc, retry_count, fsize>>

\* a 2xx response declaring c; open(file_path, 'wb') raises OSError
GetOpenFails(i) ==
    /\ pc[i] = "attempt"
    /\ attempts' = [attempts EXCEPT ![i] = @ + 1]
    /\ Return(i, -1)
    /\ Fault(i, "open")
    /\ download_info' = NoEvent
    /\ UNCHANGED <<jobVars, is_running, runVars, quitPc, retry_count, fsize>>

\* a 2xx response declaring c; open(file_path, 'wb') truncates <num>.ts
GetOk(i, c) ==
    /\ pc[i] = "attempt"
    /\ attempts' = [attempts EXCEPT ![i] = @ + 1]
    /\ pc' = [pc EXCEPT ![i] = "stream"]
    /\ content_size' = [content_size EXCEPT ![i] = c]
    /\ off' = [off EXCEPT ![i] = 0]
    /\ fsize' = [fsize EXCEPT ![Num(i)] = 0]
    /\ download_info' = NoEvent
    /\ UNCHANGED <<histVars, progVars, jobVars, is_running, runVars, quitPc, res, retry_count,
                   download_size>>

\* mutant: the chunk loop does not test the flag
ChunkCheckMut(i) ==
    /\ pc[i] = "stream"
    /\ off[i] < content_size[i]
    /\ pc' = [pc EXCEPT ![i] = "write"]
    /\ download_info' = NoEvent
    /\ UNCHANGED <<res, download_size, content_size, off, progVars>>
    /\ UNCHANGED <<histVars, jobVars, is_running, runVars, quitPc, retry_count,
                   fsize, attempts>>

\* iter_content yields a chunk; if not self._is_running: return [num, 0, url, 0]
ChunkCheck(i) ==
    /\ pc[i] = "stream"
    /\ off[i] < content_size[i]
    /\ IF ~is_running
         THEN Return(i, 0)
         ELSE /\ pc' = [pc EXCEPT ![i] = "write"]
              /\ UNCHANGED <<res, download_size, content_size, off, progVars>>
    /\ download_info' = NoEvent
    /\ UNCHANGED <<histVars, jobVars, is_running, runVars, quitPc, retry_count,
                   fsize, attempts>>

\* file.write(data) raising OSError, or the write, download_size += len(data)
\* and the Active event
ChunkWrite(i) ==
    /\ pc[i] = "write"
    /\ \/ /\ Return(i, -1)
          /\ Fault(i, "write")
          /\ download_info' = NoEvent
          /\ UNCHANGED fsize
       \/ /\ pc' = [pc EXCEPT ![i] = "stream"]
          /\ off' = [off EXCEPT ![i] = @ + 1]
          /\ fsize' = [fsize EXCEPT ![Num(i)] = Max(@, off[i] + 1)]
          /\ download_size' = [download_size EXCEPT ![i] = @ + 1]
          /\ download_info' = Active(i, download_size[i] + 1, content_size[i])
          /\ lastActive' = [lastActive EXCEPT ![i] =
                               [n |-> (download_size[i] + 1) * 100, d |-> content_size[i]]]
          /\ lateChunks' = [lateChunks EXCEPT ![i] = IF ~is_running THEN @ + 1 ELSE @]
          /\ UNCHANGED <<res, content_size, histVars>>
    /\ UNCHANGED <<jobVars, is_running, runVars, quitPc, retry_count, attempts>>

\* iter_content is exhausted; the with block closes the file
StreamEnd(i) ==
    /\ pc[i] = "stream"
    /\ pc' = [pc EXCEPT ![i] = "verify"]
    /\ download_info' = NoEvent
    /\ UNCHANGED <<histVars, progVars, jobVars, is_running, runVars, quitPc, res, retry_count,
                   download_size, content_size, off, fsize, attempts>>

\* iter_content raises requests.RequestException in mid-stream
StreamError(i) ==
    /\ pc[i] = "stream"
    /\ retry_count' = [retry_count EXCEPT ![i] = @ + 1]
    /\ IF ExceptNext(retry_count[i]) = "attempt" THEN Retry(i) ELSE Return(i, -1)
    /\ AttemptFailed(i)
    /\ download_info' = NoEvent
    /\ UNCHANGED <<jobVars, is_running, runVars, quitPc, fsize, attempts>>

\* if os.path.getsize(file_path) == content_size: return 100, else retry
Verify(i) ==
    /\ pc[i] = "verify"
    /\ IF fsize[Num(i)] = content_size[i]
         THEN /\ Return(i, 100)
              /\ UNCHANGED <<retry_count, histVars>>
         ELSE /\ retry_count' = [retry_count EXCEPT ![i] = @ + 1]
              /\ IF MismatchNext(retry_count[i]) = "attempt" THEN Retry(i) ELSE Return(i, -1)
              /\ AttemptFailed(i)
    /\ download_info' = NoEvent
    /\ UNCHANGED <<jobVars, is_running, runVars, quitPc, fsize, attempts>>

\* --------------------------------------------------- DownloadWorker.run
\* as_completed yields a finished future; if not self._is_running: break
RunTake(i) ==
    /\ runPc = "loop"
    /\ pc[i] \in Finished
    /\ ~yielded[i]
    /\ IF ~is_running
         THEN /\ runPc' = "exit"
              /\ UNCHANGED <<runCur, yielded>>
         ELSE /\ runPc' = "body"
              /\ runCur' = i
              /\ yielded' = [yielded EXCEPT ![i] = TRUE]
    /\ download_info' = NoEvent
    /\ UNCHANGED <<jobVars, is_running, termEv, quitPc, taskVars, histVars>>

\* mutant: without the try/except, a raising future ends the for loop
RunEmitMut ==
    /\ runPc = "body"
    /\ IF pc[runCur] = "done"
         THEN /\ download_info' = Terminal(runCur, res[runCur])
              /\ termEv' = [termEv EXCEPT ![runCur] = @ + 1]
              /\ runPc' = "loop"
         ELSE /\ download_info' = NoEvent
              /\ runPc' = "exit"
              /\ UNCHANGED termEv
    /\ runCur' = 0
    /\ UNCHANGED <<jobVars, is_running, yielded, quitPc, taskVars, histVars>>

\* data = future.result(); self.download_info.emit(data), or the except branch
RunEmit ==
    /\ runPc = "body"
    /\ IF pc[runCur] = "done"
         THEN /\ download_info' = Terminal(runCur, res[runCur])
              /\ termEv' = [termEv EXCEPT ![runCur] = @ + 1]
         ELSE /\ download_info' = NoEvent
              /\ UNCHANGED termEv
    /\ runPc' = "loop"
    /\ runCur' = 0
    /\ UNCHANGED <<jobVars, is_running, yielded, quitPc, taskVars, histVars>>

\* as_completed is exhausted: the for loop ends
RunLoopEnd ==
    /\ runPc = "loop"
    /\ \A i \in Tasks : yielded[i]
    /\ runPc' = "exit"
    /\ download_info' = NoEvent
    /\ UNCHANGED <<jobVars, is_running, runCur, yielded, termEv, quitPc, taskVars, histVars>>

\* the with block's exit, executor.shutdown(wait=True), then run returns
RunReturn ==
    /\ runPc = "exit"
    /\ PoolDrained
    /\ runPc' = "returned"
    /\ download_info' = NoEvent
    /\ UNCHANGED <<jobVars, is_running, runCur, yielded, termEv, quitPc, taskVars, histVars>>

\* ------------------------------------------------------------------ Next
Next ==
    \/ \E us \in UrlLists, n \in 1..MaxThreads : Transfer(us, n)
    \/ Start
    \/ QuitStop
    \/ QuitReturn
    \/ \E i \in Tasks : Begin(i)
    \/ \E i \in Tasks : Check(i)
    \/ \E i \in Tasks : Makedirs(i)
    \/ \E i \in Tasks : GetFails(i)
    \/ \E i \in Tasks : GetNoLength(i)
    \/ \E i \in Tasks : GetOpenFails(i)
    \/ \E i \in Tasks, c \in 0..MaxLen : GetOk(i, c)
    \/ \E i \in Tasks : ChunkCheck(i)
    \/ \E i \in Tasks : ChunkWrite(i)
    \/ \E i \in Tasks : StreamEnd(i)
    \/ \E i \in Tasks : StreamError(i)
    \/ \E i \in Tasks : Verify(i)
    \/ \E i \in Tasks : RunTake(i)
    \/ RunEmit
    \/ RunLoopEnd
    \/ RunReturn

Spec == Init /\ [][Next]_vars

TypeOK ==
    /\ worker \in {"None", "Job", "New"}
    /\ runPc \in {"none", "idle", "loop", "body", "exit", "returned"}
    /\ quitPc \in {"idle", "waiting", "returned"}
    /\ \A i \in Tasks : pc[i] \in {"pending"} \cup Executing \cup Finished

\* ----------------------------------------- transfer() during a running job
\* transfer() while the previous DownloadWorker is running: self.worker is
\* rebound to the new, not yet started worker; nothing stops the previous one,
\* whose state the variables keep describing
TransferRunning ==
    /\ worker = "Job"
    /\ quitPc = "idle"
    /\ runPc \in {"loop", "body", "exit"}
    /\ worker' = "New"
    /\ download_info' = NoEvent
    /\ UNCHANGED <<urls, thread_num, is_running, runVars, quitPc, taskVars, histVars>>

\* quit() after such a transfer(): stop() clears the flag of the new worker,
\* wait() returns at once because it was never started, self.worker = None
QuitNew ==
    /\ worker = "New"
    /\ worker' = "None"
    /\ download_info' = NoEvent
    /\ UNCHANGED <<urls, thread_num, is_running, runVars, quitPc, taskVars, histVars>>

NextR == Next \/ TransferRunning \/ QuitNew

\* the engine with transfer() also called while a job is running
ReentrantSpec == Init /\ [][NextR]_vars

\* ------------------------------------------------------ segment status
\* the status of the segment at position i, read off its download_core call
Status(i) ==
    CASE pc[i] = "pending" -> "Pending"
      [] pc[i] \in Executing -> "InProgress"
      [] pc[i] = "done" /\ res[i] = 100 -> "Completed"
      [] pc[i] = "done" /\ res[i] = -1 -> "Failed"
      [] pc[i] = "done" /\ res[i] = 0 -> "Cancelled"
      [] OTHER -> "Raised"

\* ------------------------------------------------------------- fairness
\* the steps of the pool thread running call i
TaskStep(i) ==
    /\ i \in Tasks
    /\ \/ Begin(i)
       \/ Check(i)
       \/ Makedirs(i)
       \/ GetFails(i)
       \/ GetNoLength(i)
       \/ GetOpenFails(i)
       \/ \E c \in 0..MaxLen : GetOk(i, c)
       \/ ChunkCheck(i)
       \/ ChunkWrite(i)
       \/ StreamEnd(i)
       \/ StreamError(i)
       \/ Verify(i)

\* the steps of the QThread executing run()
RunStep == (\E i \in Tasks : RunTake(i)) \/ RunEmit \/ RunLoopEnd \/ RunReturn

\* every thread that can step eventually does; transfer, start and the call
\* of quit are the caller's and carry no fairness
LiveSpec ==
    /\ Init /\ [][Next]_vars
    /\ \A i \in 1..MaxUrls : WF_vars(TaskStep(i))
    /\ WF_vars(RunStep)
    /\ WF_vars(QuitReturn)

\* ================================================================ claims

\* C1: at most thread_num segments are InProgress (inside download_core) in
\* every reachable state.
C1_AtMostThreadNum == Cardinality(InProgress) <= thread_num

C1_Witness ==
    /\ thread_num >= 1
    /\ Cardinality(InProgress) = thread_num
    /\ \E i \in Tasks : pc[i] = "pending"
    /\ \E i \in Tasks : pc[i] = "stream"

\* C2: once run() has returned, every segment has one of the terminal statuses
\* Completed, Failed, Cancelled.
C2_AllTerminalAfterRun ==
    runPc = "returned" => \A i \in Tasks : Status(i) \in {"Completed", "Failed", "Cancelled"}

\* C3: by the time run() has returned, a terminal event has been emitted for
\* every segment, cancelled or not.
C3_TerminalEventPerSegment ==
    runPc = "returned" => \A i \in Tasks : termEv[i] >= 1

\* C4: with the flag cleared, no GET is started for a segment that was still
\* queued when the flag was cleared, nor for one whose previous attempt failed
\* after the flag was cleared.
C4_NoGetAfterStop ==
    [][\A i \in DOMAIN attempts :
          (i \in DOMAIN attempts' /\ attempts'[i] > attempts[i]) => late[i] = "none"]_vars

\* C5: once quit() has cleared the flag and waits, under fair scheduling quit()
\* eventually returns, with run() returned and no call left in download_core.
C5_QuitReturns ==
    (quitPc = "waiting") ~> (quitPc = "returned" /\ WaitReturns /\ InProgress = {})

C5_Witness ==
    /\ quitPc = "returned"
    /\ runPc = "returned"
    /\ \E i \in Tasks : late[i] = "queued"
    /\ \E i \in Tasks : attempts[i] >= 1 /\ pc[i] = "done" /\ res[i] = 0

\* C6: after quit() has returned, no call is executing, run() is not running,
\* no queued call can still start, and no step emits on download_info.
C6_QuietAfterQuit ==
    quitPc = "returned" =>
        /\ InProgress = {}
        /\ runPc \in {"idle", "returned"}
        /\ runPc = "returned" => PoolDrained
        /\ download_info = NoEvent

C6_Witness ==
    /\ quitPc = "returned"
    /\ runPc = "returned"
    /\ \E i \in Tasks : termEv[i] = 1
    /\ \E i \in Tasks : attempts[i] >= 1 /\ termEv[i] = 0

\* C7: a call all of whose attempts failed transiently (every GET it started
\* was counted in retry_count) made exactly 3 GETs and returned -1; run() emits
\* its result at most once, exactly once when the job ends uncancelled, and
\* the terminal event of that call carries -1.
C7_RetryExhaustion ==
    \A i \in Tasks :
        (pc[i] = "done" /\ attempts[i] >= 1 /\ retry_count[i] = attempts[i]) =>
            /\ attempts[i] = 3
            /\ res[i] = -1
            /\ termEv[i] <= 1
            /\ (runPc = "returned" /\ is_running) => termEv[i] = 1
            /\ (download_info.active = 0 /\ download_info.pos = i) =>
                   (download_info.n = -1 /\ download_info.d = 1 /\ download_info.num = Num(i))

C7_Witness ==
    /\ runPc = "returned"
    /\ is_running
    /\ \E i \in Tasks : /\ pc[i] = "done" /\ attempts[i] = 3 /\ retry_count[i] = 3
                        /\ res[i] = -1 /\ termEv[i] = 1

\* C8: a 2xx response without content-length is not treated as a failure: the
\* call does not end Failed because of it.
C8_NoLengthNotFailure ==
    \A i \in Tasks : fault[i] = "nolen" => ~(pc[i] = "done" /\ res[i] = -1)

\* C9: a failure of makedirs, open or write leaves download_core as the result
\* -1, never as an exception, and that result is emitted when the job ends
\* uncancelled.
C9_FsErrorsContained ==
    \A i \in Tasks : fault[i] \in {"mkdir", "open", "write"} =>
        /\ pc[i] = "done" /\ res[i] = -1
        /\ (runPc = "returned" /\ is_running) => termEv[i] = 1

\* C10: every Active event carries a value between 0 and 100.
C10_ActivePercentRange ==
    download_info.active = 1 =>
        (0 <= download_info.n /\ download_info.n <= 100 * download_info.d)

\* C11: the segment submitted for position i is fetched with index i: every
\* event emitted for it carries the index of its position, for every URL list.
C11_IndexIsPosition ==
    download_info # NoEvent => download_info.num = download_info.pos - 1

\* C12: no two distinct calls of a job have the same output file open for
\* writing.
C12_OneWriterPerFile ==
    \A i \in Tasks : \A j \in Tasks :
        (i # j /\ pc[i] = "stream" /\ pc[j] = "stream") => Num(i) # Num(j)

\* C13: whenever self.worker does not refer to the job of the variables (it is
\* None or refers to a newer worker), that job is not running: run() is not
\* executing, no call is in download_core and nothing is emitted.
C13_OneRunningJob ==
    worker # "Job" =>
        /\ runPc \notin {"loop", "body", "exit"}
        /\ InProgress = {}
        /\ download_info = NoEvent

\* C14: in a job that ends uncancelled and in which some call ended Failed or
\* raised, run() has handled every future, and every call that did not itself
\* raise was attempted, returned a result and had it emitted.
C14_FailureIsolated ==
    (runPc = "returned" /\ is_running
        /\ \E i \in Tasks : pc[i] = "raised" \/ (pc[i] = "done" /\ res[i] = -1)) =>
        \A j \in Tasks :
            /\ yielded[j]
            /\ pc[j] \in Finished
            /\ fault[j] # "mkdir" =>
                   (pc[j] = "done" /\ attempts[j] >= 1 /\ termEv[j] = 1)

C14_Witness ==
    /\ runPc = "returned"
    /\ is_running
    /\ thread_num = 1
    /\ Len(urls) = 2
    /\ pc[1] = "raised"
    /\ pc[2] = "done" /\ res[2] = 100 /\ termEv[2] = 1

\* the attempt of call i has streamed to its end and the file size on disk
\* differs from the declared content length
Mismatch(i) == pc[i] = "verify" /\ fsize[Num(i)] # content_size[i]

\* C15: when call i verifies a mismatching file with fewer than 3 attempts made,
\* its step does not fail it: it goes back to the top of the loop with
\* retry_count one higher and no GET counted yet, and the next step of a call
\* at the top of the loop starts exactly one GET.
C15_MismatchRetriesOnce ==
    [][\A i \in DOMAIN pc :
          /\ (Mismatch(i) /\ attempts[i] < 3 /\ pc'[i] # pc[i]) =>
                 /\ pc'[i] = "attempt"
                 /\ retry_count'[i] = retry_count[i] + 1
                 /\ attempts'[i] = attempts[i]
          /\ (pc[i] = "attempt" /\ i \in DOMAIN pc'
                /\ (pc'[i] # pc[i] \/ attempts'[i] # attempts[i])) =>
                 attempts'[i] = attempts[i] + 1]_vars

C15_Witness ==
    \E i \in Tasks : Mismatch(i) /\ attempts[i] < 3 /\ off[i] < content_size[i] /\ is_running

\* C16 (as claimed): a size mismatch found on the third attempt still sends the
\* call back for a further attempt.
C16_FinalMismatchRetries ==
    [][\A i \in DOMAIN pc :
          (Mismatch(i) /\ attempts[i] = 3 /\ pc'[i] # pc[i]) => pc'[i] = "attempt"]_vars

\* C16 (amended): a size mismatch found on the third attempt ends the call with
\* the result -1 and no further GET, as a transport error on the third attempt
\* does.
C16_FinalMismatchFails ==
    [][\A i \in DOMAIN pc :
          /\ (Mismatch(i) /\ attempts[i] = 3 /\ pc'[i] # pc[i]) =>
                 (pc'[i] = "done" /\ res'[i] = -1 /\ attempts'[i] = attempts[i])
          /\ (pc[i] = "stream" /\ attempts[i] = 3 /\ retry_count'[i] # retry_count[i]) =>
                 (pc'[i] = "done" /\ res'[i] = -1 /\ attempts'[i] = attempts[i])]_vars

C16_Witness ==
    \E i \in Tasks : Mismatch(i) /\ attempts[i] = 3 /\ retry_count[i] = 2

C18_CancelWithinOneChunk ==
    \A i \in Tasks :
        /\ lateChunks[i] <= 1
        /\ (pc[i] = "done" /\ res[i] = 0 /\ attempts[i] >= 1) =>
               retry_count[i] = attempts[i] - 1

C18_Witness ==
    \E i \in Tasks : /\ ~is_running
                     /\ lateChunks[i] = 1
                     /\ pc[i] = "stream"
                     /\ off[i] < content_size[i]

\* C19: a Completed call's file <num>.ts holds exactly the content length its
\* completing attempt declared, in every later state of the job.
C19_CompletedFileIntact ==
    \A i \in Tasks :
        (pc[i] = "done" /\ res[i] = 100) => fsize[Num(i)] = content_size[i]

====
